---- MODULE Spec2Model ----
(***************************************************************************)
(* A model of the UFC statistics scraper (src/src/scraping):               *)
(*   - the value parsers of get_fight.py,                                  *)
(*   - get_fighter_basic_stats (get_fighter.py),                           *)
(*   - get_fight_stats (get_fight.py),                                     *)
(*   - get_event_fights (event_scraper.py),                                *)
(*   - UFCScraper.get_recent_events (ufc_scraper.py).                      *)
(* Text is a sequence of one-character strings; a parsed HTML document is  *)
(* a record naming the elements the code looks up.  A Python call either   *)
(* returns a value or raises: results are records with a field "kind".     *)
(***************************************************************************)
EXTENDS Integers, Sequences, FiniteSets, TLC

(***************************************************************************)
(* Text helpers (Python str methods used by the parsers)                   *)
(***************************************************************************)
\* the value of F at v, with v computed once
With(v, F(_)) == CHOOSE r \in {F(y) : y \in {v}} : TRUE

Digits == {"0", "1", "2", "3", "4", "5", "6", "7", "8", "9"}

DigitVal(c) ==
  CASE c = "0" -> 0 [] c = "1" -> 1 [] c = "2" -> 2 [] c = "3" -> 3
    [] c = "4" -> 4 [] c = "5" -> 5 [] c = "6" -> 6 [] c = "7" -> 7
    [] c = "8" -> 8 [] c = "9" -> 9

\* s[i..] starts with pat
StartsAt(s, i, pat) ==
  /\ i + Len(pat) - 1 <= Len(s)
  /\ \A k \in 1..Len(pat) : s[i + k - 1] = pat[k]

\* the places where pat occurs in s
Occurrences(s, pat) == {i \in 1..(Len(s) + 1) : StartsAt(s, i, pat)}

\* Python: pat in s
Contains(s, pat) == Occurrences(s, pat) # {}

\* index of the first occurrence of pat in s, 0 when there is none
FindFirst(s, pat) ==
  With(Occurrences(s, pat), LAMBDA occ :
    IF occ = {} THEN 0 ELSE CHOOSE i \in occ : \A j \in occ : i <= j)

\* Python: seq[n:]
Drop(seq, n) == IF n >= Len(seq) THEN <<>> ELSE SubSeq(seq, n + 1, Len(seq))

\* Python: s.split(pat) for a non-empty separator
RECURSIVE SplitOn(_, _)
SplitOn(s, pat) ==
  With(FindFirst(s, pat), LAMBDA i :
    IF i = 0 THEN <<s>>
    ELSE <<SubSeq(s, 1, i - 1)>> \o SplitOn(Drop(s, i + Len(pat) - 1), pat))

\* Python: s.replace(pat, rep)
RECURSIVE Replace(_, _, _)
Replace(s, pat, rep) ==
  With(IF pat = <<>> THEN 0 ELSE FindFirst(s, pat), LAMBDA i :
    IF i = 0 THEN s
    ELSE SubSeq(s, 1, i - 1) \o rep \o Replace(Drop(s, i + Len(pat) - 1), pat, rep))

\* Python: s.lstrip(chars), s.rstrip(chars), s.strip(chars)
LStrip(s, chars) ==
  With({i \in 1..Len(s) : s[i] \notin chars}, LAMBDA keep :
    IF keep = {} THEN <<>>
    ELSE Drop(s, (CHOOSE i \in keep : \A j \in keep : i <= j) - 1))

RStrip(s, chars) ==
  With({i \in 1..Len(s) : s[i] \notin chars}, LAMBDA keep :
    IF keep = {} THEN <<>>
    ELSE SubSeq(s, 1, CHOOSE i \in keep : \A j \in keep : j <= i))

Strip(s, chars) == RStrip(LStrip(s, chars), chars)

White == {" "}

\* Python: s.split() (split on runs of whitespace, no empty words)
RECURSIVE SplitWords(_)
SplitWords(s) ==
  With(LStrip(s, White), LAMBDA t :
    IF t = <<>> THEN <<>>
    ELSE With({i \in 1..Len(t) : t[i] \in White}, LAMBDA gaps :
           With(IF gaps = {} THEN Len(t)
                ELSE (CHOOSE i \in gaps : \A j \in gaps : i <= j) - 1, LAMBDA n :
             <<SubSeq(t, 1, n)>> \o SplitWords(Drop(t, n)))))

\* Python: s.isdigit()
IsDigit(s) == s # <<>> /\ \A i \in 1..Len(s) : s[i] \in Digits

RECURSIVE DigitsVal(_)
DigitsVal(s) ==
  IF s = <<>> THEN 0 ELSE 10 * DigitsVal(SubSeq(s, 1, Len(s) - 1)) + DigitVal(s[Len(s)])

\* the outcome of a call: a value, Python's None, or an exception
Raise == [kind |-> "raise"]
None == [kind |-> "none"]
Ret(v) == [kind |-> "ok", val |-> v]

\* Python: int(s): surrounding whitespace is ignored, one optional sign, then digits
ParseInt(s) ==
  With(Strip(s, White), LAMBDA t :
    With(IF t # <<>> /\ Head(t) \in {"-", "+"} THEN Tail(t) ELSE t, LAMBDA u :
      IF IsDigit(u)
        THEN Ret((IF Head(t) = "-" THEN -1 ELSE 1) * DigitsVal(u))
        ELSE Raise))

(***************************************************************************)
(* Value parsers, get_fight.py                                             *)
(***************************************************************************)
OF == <<"o", "f">>
SEP_OF == <<" ", "o", "f", " ">>

\* parse_fraction(value): (X, Y) of 'X of Y', (0, 0) when 'of' is absent
parse_fraction(value) ==
  IF Contains(value, OF)
    THEN With(SplitOn(value, SEP_OF), LAMBDA parts :
           IF Len(parts) < 2 THEN Raise
           ELSE With([j \in 1..2 |-> ParseInt(parts[j])], LAMBDA n :
                  IF n[1].kind = "raise" \/ n[2].kind = "raise" THEN Raise
                  ELSE Ret(<<n[1].val, n[2].val>>)))
    ELSE Ret(<<0, 0>>)

\* parse_time_to_seconds(time_str): 'MM:SS' in seconds, 0 without a colon
parse_time_to_seconds(time_str) ==
  IF Contains(time_str, <<":">>)
    THEN With(SplitOn(time_str, <<":">>), LAMBDA parts :
           With([j \in 1..2 |-> ParseInt(parts[j])], LAMBDA n :
             IF n[1].kind = "raise" \/ n[2].kind = "raise" THEN Raise
             ELSE Ret(n[1].val * 60 + n[2].val)))
    ELSE Ret(0)

RECURSIVE Pow10(_)
Pow10(n) == IF n = 0 THEN 1 ELSE 10 * Pow10(n - 1)

\* a float is the fraction num/den with den a power of ten and no trailing zero
Float(num, den) == [num |-> num, den |-> den]

\* Python: float(s) for s made of digits and dots (the only case the caller passes)
ParseFloat(s) ==
  With(SplitOn(s, <<".">>), LAMBDA parts :
    IF Len(parts) > 2 THEN Raise
    ELSE IF parts[1] = <<>> /\ (Len(parts) = 1 \/ parts[2] = <<>>) THEN Raise
    ELSE With(IF Len(parts) = 2 THEN RStrip(parts[2], {"0"}) ELSE <<>>, LAMBDA fp :
           Ret(Float(DigitsVal(parts[1] \o fp), Pow10(Len(fp))))))

\* the percentage conversion of parse_totals (sig_str_pct, td_pct)
parse_pct(value) ==
  With(Replace(Replace(value, <<"%">>, <<>>), <<"-", "-", "-">>, <<"0">>), LAMBDA pct :
    IF IsDigit(Replace(pct, <<".">>, <<>>)) THEN ParseFloat(pct) ELSE Ret(Float(0, 1)))

\* the integer conversion of parse_totals (kd, sub_att, rev)
parse_count(value) == IF IsDigit(value) THEN DigitsVal(value) ELSE 0

(***************************************************************************)
(* The fight dictionary: a function from key strings to values             *)
(***************************************************************************)
EmptyDict == [k \in {} |-> 0]
Put(d, k, v) == (k :> v) @@ d
Del(d, k) == [x \in (DOMAIN d) \ {k} |-> d[x]]
Get(d, k) == IF k \in DOMAIN d THEN d[k] ELSE None

\* d updated with every entry of the dictionary e
Update(d, e) == e @@ d

(***************************************************************************)
(* parse_totals and parse_sig_strikes, get_fight.py                        *)
(* A table is the sequence of its <tr> rows, a row the sequence of its     *)
(* <td> cells, a cell the sequence of the texts of its <p> elements.       *)
(***************************************************************************)
stat_names == <<"kd", "sig_str", "sig_str_pct", "total_str", "td", "td_pct",
                "sub_att", "rev", "ctrl">>

sig_stat_names == <<"head", "body", "leg", "distance", "clinch", "ground">>

\* the suffix of row number r (counted from 0)
RowSuffix_none(r, multiple_rows) == ""
RowSuffix(r, multiple_rows) == IF multiple_rows THEN "_0" \o ToString(r) ELSE ""

\* lines 103-129: what one fighter's text of a statistic is stored as, the
\* entries named by what follows the statistic's name in the key
TotalsValue(stat_name, value) ==
  IF stat_name \in {"kd", "sub_att", "rev"}
    THEN Ret(("" :> parse_count(value)))
  ELSE IF stat_name \in {"sig_str_pct", "td_pct"}
    THEN With(parse_pct(value), LAMBDA f :
           IF f.kind = "raise" THEN Raise ELSE Ret(("" :> f.val)))
  ELSE IF stat_name \in {"sig_str", "total_str", "td"}
    THEN With(parse_fraction(value), LAMBDA f :
           IF f.kind = "raise" THEN Raise
           ELSE Ret(("_landed" :> f.val[1]) @@ ("_attempted" :> f.val[2])))
  ELSE \* 'ctrl'
         With(parse_time_to_seconds(value), LAMBDA t :
           IF t.kind = "raise" THEN Raise ELSE Ret(("_seconds" :> t.val)))

\* lines 188-194: the same for a statistic of the significant-strikes table
SigValue(stat_name, value) ==
  With(parse_fraction(value), LAMBDA f :
    IF f.kind = "raise" THEN Raise
    ELSE Ret(("_landed" :> f.val[1]) @@ ("_attempted" :> f.val[2])))

\* the entries written for one cell: stat_values[0] under fighter_a_*,
\* stat_values[1] under fighter_b_*
CellEntries(stat_name, stat_values, suffix, Value(_, _)) ==
  IF Len(stat_values) < 2 THEN Raise
  ELSE With([j \in 1..2 |-> Value(stat_name, Strip(stat_values[j], White))], LAMBDA v :
         IF v[1].kind = "raise" \/ v[2].kind = "raise" THEN Raise
         ELSE Ret([k \in {"fighter_a_" \o stat_name \o x \o suffix : x \in DOMAIN v[1].val}
                         \cup {"fighter_b_" \o stat_name \o x \o suffix : x \in DOMAIN v[2].val} |->
                     IF \E x \in DOMAIN v[1].val : k = "fighter_a_" \o stat_name \o x \o suffix
                       THEN v[1].val[CHOOSE x \in DOMAIN v[1].val :
                                       k = "fighter_a_" \o stat_name \o x \o suffix]
                       ELSE v[2].val[CHOOSE x \in DOMAIN v[2].val :
                                       k = "fighter_b_" \o stat_name \o x \o suffix]]))

\* the cells a table parser visits, in loop order: <<r, i>> for row number r
\* (from 0) and statistic i (from 1) when the row, without its first skip
\* cells, has a cell for it
RECURSIVE CellsFrom(_, _, _, _)
CellsFrom(rows, r, nstats, skip) ==
  IF r >= Len(rows) THEN <<>>
  ELSE [i \in 1..(IF Len(rows[r + 1]) - skip < nstats
                    THEN (IF Len(rows[r + 1]) > skip THEN Len(rows[r + 1]) - skip ELSE 0)
                    ELSE nstats) |-> <<r, i>>]
       \o CellsFrom(rows, r + 1, nstats, skip)

\* the loops of parse_totals (lines 87-129), from the n-th visited cell on
RECURSIVE TotalsLoop(_, _, _, _, _)
TotalsLoop(fight, rows, cells, n, multiple_rows) ==
  IF n > Len(cells) THEN Ret(fight)
  ELSE With(CellEntries(stat_names[cells[n][2]], rows[cells[n][1] + 1][cells[n][2] + 1],
                        RowSuffix(cells[n][1], multiple_rows), TotalsValue), LAMBDA e :
         IF e.kind = "raise" THEN Raise
         ELSE TotalsLoop(Update(fight, e.val), rows, cells, n + 1, multiple_rows))

\* parse_totals(totals, fight, fighter_a_id_, fighter_b_id_, multiple_rows):
\* the two ids are accepted and never read
parse_totals(totals, fight, fighter_a_id_, fighter_b_id_, multiple_rows) ==
  TotalsLoop(fight, totals, CellsFrom(totals, 0, Len(stat_names), 1), 1, multiple_rows)

\* the loops of parse_sig_strikes (lines 167-194), from the n-th visited cell on
RECURSIVE SigLoop(_, _, _, _, _)
SigLoop(fight, rows, cells, n, multiple_rows) ==
  IF n > Len(cells) THEN Ret(fight)
  ELSE With(CellEntries(sig_stat_names[cells[n][2]], rows[cells[n][1] + 1][cells[n][2] + 3],
                        RowSuffix(cells[n][1], multiple_rows), SigValue), LAMBDA e :
         IF e.kind = "raise" THEN Raise
         ELSE SigLoop(Update(fight, e.val), rows, cells, n + 1, multiple_rows))

\* parse_sig_strikes(sig_strike_element, fight, fighter_a_id_, fighter_b_id_, multiple_rows)
parse_sig_strikes(sig_strike_element, fight, fighter_a_id_, fighter_b_id_, multiple_rows) ==
  SigLoop(fight, sig_strike_element,
          CellsFrom(sig_strike_element, 0, Len(sig_stat_names), 3), 1, multiple_rows)

(***************************************************************************)
(* fetcher.py.  A URL is a sequence of path tokens; the web maps a URL to  *)
(* the document served for it, or to None when the request fails.          *)
(***************************************************************************)
\* the markers of the three kinds of page, as texts
EVENT_DETAILS == <<"e", "v", "e", "n", "t", "-", "d", "e", "t", "a", "i", "l", "s">>
FIGHT_DETAILS == <<"f", "i", "g", "h", "t", "-", "d", "e", "t", "a", "i", "l", "s">>
FIGHTER_DETAILS == <<"f", "i", "g", "h", "t", "e", "r", "-", "d", "e", "t", "a", "i", "l", "s">>

\* a call of the fetcher: the value it returns and the requests it has issued
\* (requests.get, line 14)
Call(val, reqs) == [val |-> val, reqs |-> reqs]

\* fetch_url(url): the response text, None on a request error; the request is
\* for the URL without its surrounding whitespace
fetch_url_call(url, net) ==
  With(Strip(url, White), LAMBDA u :
    Call(IF u \in DOMAIN net THEN net[u] ELSE None, <<u>>))

get_event_page_call(event_url, net) ==
  IF ~Contains(event_url, EVENT_DETAILS) THEN Call(None, <<>>)
  ELSE fetch_url_call(event_url, net)

get_fight_page_call_any(fight_url, net) == fetch_url_call(fight_url, net)
get_fight_page_call(fight_url, net) ==
  IF ~Contains(fight_url, FIGHT_DETAILS) THEN Call(None, <<>>)
  ELSE fetch_url_call(fight_url, net)

get_fighter_page_call(fighter_url, net) ==
  IF ~Contains(fighter_url, FIGHTER_DETAILS) THEN Call(None, <<>>)
  ELSE fetch_url_call(fighter_url, net)

\* the values returned
fetch_url(url, net) == fetch_url_call(url, net).val
get_event_page(event_url, net) == get_event_page_call(event_url, net).val
get_fight_page(fight_url, net) == get_fight_page_call(fight_url, net).val
get_fighter_page(fighter_url, net) == get_fighter_page_call(fighter_url, net).val

(***************************************************************************)
(* Dates: datetime.strptime(text, fmt).strftime('%d/%m/%Y')                *)
(***************************************************************************)
MonthAbbr == << <<"J","a","n">>, <<"F","e","b">>, <<"M","a","r">>, <<"A","p","r">>,
                <<"M","a","y">>, <<"J","u","n">>, <<"J","u","l">>, <<"A","u","g">>,
                <<"S","e","p">>, <<"O","c","t">>, <<"N","o","v">>, <<"D","e","c">> >>

MonthFull == << <<"J","a","n","u","a","r","y">>, <<"F","e","b","r","u","a","r","y">>,
                <<"M","a","r","c","h">>, <<"A","p","r","i","l">>, <<"M","a","y">>,
                <<"J","u","n","e">>, <<"J","u","l","y">>, <<"A","u","g","u","s","t">>,
                <<"S","e","p","t","e","m","b","e","r">>, <<"O","c","t","o","b","e","r">>,
                <<"N","o","v","e","m","b","e","r">>, <<"D","e","c","e","m","b","e","r">> >>

IsLeap(y) == (y % 4 = 0 /\ y % 100 # 0) \/ y % 400 = 0

DaysIn(m, y) ==
  IF m = 2 THEN (IF IsLeap(y) THEN 29 ELSE 28)
  ELSE IF m \in {4, 6, 9, 11} THEN 30 ELSE 31

TwoDigits(n) == IF n < 10 THEN "0" \o ToString(n) ELSE ToString(n)

\* strptime with the format '<month> %d, %Y' (months: the names %b or %B accepts)
\* followed by strftime('%d/%m/%Y'); raises when the text does not match
DateDigits(day, year, m) ==
  IF ~IsDigit(day) \/ ~IsDigit(year) \/ Len(year) # 4 THEN Raise
  ELSE With(<<DigitsVal(day), DigitsVal(year)>>, LAMBDA dy :
         IF dy[1] < 1 \/ dy[1] > DaysIn(m, dy[2]) \/ dy[2] < 1 THEN Raise
         ELSE Ret(TwoDigits(dy[1]) \o "/" \o TwoDigits(m) \o "/" \o ToString(dy[2])))

ReformatDate(text, months) ==
  With({m \in 1..12 : StartsAt(text, 1, months[m])}, LAMBDA ms :
    IF ms = {} THEN Raise
    ELSE
      With(CHOOSE x \in ms : \A z \in ms : Len(months[z]) <= Len(months[x]), LAMBDA m :
        With(Drop(text, Len(months[m])), LAMBDA r1 :
          With(LStrip(r1, White), LAMBDA r2 :
            With(IF Len(r2) >= 2 /\ r2[1] \in Digits /\ r2[2] \in Digits THEN 2
                 ELSE 1, LAMBDA nd :
              With(LStrip(Drop(r2, nd + 1), White), LAMBDA r5 :
                IF \/ r2 = r1
                   \/ Len(r2) < nd + 1 \/ r2[nd + 1] # ","
                   \/ r5 = Drop(r2, nd + 1)
                  THEN Raise
                  ELSE DateDigits(SubSeq(r2, 1, nd), r5, m)))))))

(***************************************************************************)
(* get_fighter_basic_stats, get_fighter.py                                 *)
(* A fighter page names the elements the code looks up:                    *)
(*   containers  number of div.l-page__container                           *)
(*   title       h2.b-content__title present                               *)
(*   name        text of span.b-content__title-highlight                   *)
(*   record      words of span.b-content__title-record                     *)
(*   stats_div, info_box, stats_list   the nested containers present       *)
(*   items       the li.b-list__box-list-item entries:                     *)
(*               [label: i.b-list__box-item-title present,                 *)
(*                title: the label's text as tokens, value: the rest]      *)
(***************************************************************************)
\* Python: str.lower() on the label words of the page
Lower(w) ==
  CASE w = "Height" -> "height" [] w = "Weight" -> "weight" [] w = "Reach" -> "reach"
    [] w = "STANCE" -> "stance" [] w = "DOB" -> "dob" [] OTHER -> w

RECURSIVE JoinLower(_)
JoinLower(ws) == IF ws = <<>> THEN "" ELSE Lower(Head(ws)) \o JoinLower(Tail(ws))

\* label.get_text(strip=True).rstrip(':').lower()
LabelKey(title) == JoinLower(RStrip(title, {":"}))

\* li.get_text(strip=True).replace(label.get_text(strip=True), '').strip()
ItemValue(li) == Strip(Replace(li.title \o Strip(li.value, White), li.title, <<>>), White)

\* lines 70-81, the loop over basic_stats from the n-th entry on:
\* fighter_info[key] is the value text, or None for an empty or dashed one
RECURSIVE BasicStatsLoop(_, _, _)
BasicStatsLoop(fighter_info, items, n) ==
  IF n > Len(items) THEN fighter_info
  ELSE IF ~items[n].label THEN BasicStatsLoop(fighter_info, items, n + 1)
  ELSE With(ItemValue(items[n]), LAMBDA value :
         With(Put(fighter_info, LabelKey(items[n].title),
                  IF value # <<>> /\ ~Contains(value, <<"-">>) THEN Ret(value) ELSE None),
              LAMBDA info : BasicStatsLoop(info, items, n + 1)))

\* re.match(r"(\d+)'\s*(\d+)\"", text): feet * 12 + inches, raise without a match
LeadingDigits(t) ==
  With({i \in 1..Len(t) : t[i] \notin Digits}, LAMBDA others :
    IF others = {} THEN t
    ELSE SubSeq(t, 1, (CHOOSE i \in others : \A j \in others : i <= j) - 1))

ParseHeight(text) ==
  With(LeadingDigits(text), LAMBDA feet :
    With(LStrip(Drop(text, Len(feet) + 1), White), LAMBDA r2 :
      With(LeadingDigits(r2), LAMBDA inches :
        IF \/ feet = <<>> \/ Len(text) <= Len(feet) \/ text[Len(feet) + 1] # "'"
           \/ inches = <<>> \/ Len(r2) <= Len(inches) \/ r2[Len(inches) + 1] # "\""
          THEN Raise
          ELSE Ret(DigitsVal(feet) * 12 + DigitsVal(inches)))))

\* lines 84-117: the conversion of one of the four typed fields; it may raise
ConvertField(v, key) ==
  IF v.kind = "none" THEN None
  ELSE IF key = "dob" THEN ReformatDate(v.val, MonthAbbr)
  ELSE IF key = "weight" THEN ParseInt(SplitWords(v.val)[1])
  ELSE IF key = "reach" THEN ParseInt(Strip(v.val, {"\""}))
  ELSE ParseHeight(v.val)

TypedFields == {"dob", "weight", "reach", "height"}

\* lines 40-117 for a page that has all its containers
BasicStats(soup) ==
  With(BasicStatsLoop(("name" :> soup.name) @@ ("record" :> soup.record[2]), soup.items, 1),
       LAMBDA info :
    With([key \in TypedFields |-> ConvertField(Get(info, key), key)], LAMBDA conv :
      IF \E key \in TypedFields : conv[key].kind = "raise" THEN Raise
      ELSE Ret(Update(info, conv))))

get_fighter_basic_stats(fighter_url, net) ==
  With(get_fighter_page(fighter_url, net), LAMBDA html :
    IF html.kind = "none" THEN None
    ELSE IF html.val.containers < 2 THEN Raise
    ELSE IF ~html.val.title THEN None
    ELSE IF Len(html.val.record) < 2 THEN Raise
    ELSE IF ~html.val.stats_div \/ ~html.val.info_box \/ ~html.val.stats_list THEN None
    ELSE BasicStats(html.val))

(***************************************************************************)
(* get_fight_stats, get_fight.py                                           *)
(* A fight page names the elements the code looks up:                      *)
(*   persons_container  div.b-fight-details__persons present               *)
(*   persons    the div.b-fight-details__person blocks in page order:      *)
(*              [link: the name link is present, name: its text,           *)
(*               href: its target, green: the block carries the            *)
(*               winner-status marker i.b-fight-details__person-status_style_green] *)
(*   title      words of i.b-fight-details__fight-title, None when absent  *)
(*   content    the first p.b-fight-details__text of                       *)
(*              div.b-fight-details__content is present                    *)
(*   method     words of i.b-fight-details__text-item_first, None if absent*)
(*   items      words of each i.b-fight-details__text-item, in order       *)
(*   sections   the section.js-fight-section tables, in page order         *)
(*   sig_table  the table following sections[2], None when absent          *)
(***************************************************************************)
\* Python: "".join(words)
RECURSIVE Join(_)
Join(ws) == IF ws = <<>> THEN "" ELSE Head(ws) \o Join(Tail(ws))

\* lines 229-241: the fighter blocks that carry a name link, in page order
Linked(persons) == SelectSeq(persons, LAMBDA p : p.link)

\* lines 257-264: fight[f"{prefix}{key}"] = value for every item of the basic
\* stats of both sides (nothing for a side whose lookup returned None)
MergeBasic(fight, basic) ==
  With({<<side, x>> : side \in {sd \in DOMAIN basic : basic[sd].kind = "ok"},
                      x \in UNION {IF basic[sd].kind = "ok" THEN DOMAIN basic[sd].val ELSE {}
                                     : sd \in DOMAIN basic}},
       LAMBDA all :
    With({e \in all : e[2] \in DOMAIN basic[e[1]].val}, LAMBDA entries :
      [k \in DOMAIN fight \cup {"fighter_" \o e[1] \o "_" \o e[2] : e \in entries} |->
         IF \E e \in entries : k = "fighter_" \o e[1] \o "_" \o e[2]
           THEN With(CHOOSE e \in entries : k = "fighter_" \o e[1] \o "_" \o e[2],
                     LAMBDA e : basic[e[1]].val[e[2]])
           ELSE fight[k]]))

\* lines 298-313: the side of the fighter block that carries the winner marker
Winner(fight, persons) ==
  With({i \in 1..Len(persons) : persons[i].green}, LAMBDA greens :
    IF greens = {} THEN Raise                         \* winner_status is None
    ELSE With(persons[CHOOSE i \in greens : \A j \in greens : i <= j], LAMBDA winner_div :
           IF ~winner_div.link THEN Raise             \* winner_name_tag is None
           ELSE IF winner_div.name = fight["fighter_a_name"] THEN Ret("a")
           ELSE Ret("b")))

\* lines 316-335: the four statistics tables, from the n-th on
RECURSIVE TablesLoop(_, _, _, _, _)
TablesLoop(fight, soup, fighter_a_id, fighter_b_id, n) ==
  IF n > 4 THEN Ret(fight)
  ELSE IF (n = 1 /\ Len(soup.sections) < 2) \/ (n = 2 /\ Len(soup.sections) < 3)
          \/ (n = 3 /\ soup.sig_table.kind = "none") \/ (n = 4 /\ Len(soup.sections) < 5)
    THEN Raise
  ELSE With(IF n <= 2
              THEN parse_totals(soup.sections[n + 1], fight, fighter_a_id, fighter_b_id, n = 2)
              ELSE parse_sig_strikes(IF n = 3 THEN soup.sig_table.val ELSE soup.sections[5],
                                     fight, fighter_a_id, fighter_b_id, n = 4),
            LAMBDA t :
         IF t.kind = "raise" THEN Raise
         ELSE TablesLoop(t.val, soup, fighter_a_id, fighter_b_id, n + 1))

FightTables(fight, soup, fighter_a_id, fighter_b_id) ==
  TablesLoop(fight, soup, fighter_a_id, fighter_b_id, 1)

\* lines 270-295: date, location, weight class and the metadata block
FightMeta(fight, soup, location, date) ==
  With(ReformatDate(date, MonthFull), LAMBDA d :
    IF d.kind = "raise" THEN Raise
    ELSE IF soup.title.kind = "none" \/ soup.title.val = <<>> THEN Raise
    ELSE IF ~soup.content \/ soup.method.kind = "none" \/ Len(soup.items) < 3 THEN Raise
    ELSE IF Len(soup.items[1]) < 2 \/ Len(soup.items[2]) < 2 \/ Len(soup.items[3]) < 3
      THEN Raise
    ELSE Ret(Update(fight,
           [k \in {"date", "location", "weight_class", "victory_method", "final_round",
                   "finish_time", "number_of_rounds"} |->
              CASE k = "date" -> d.val
                [] k = "location" -> location
                [] k = "weight_class" -> soup.title.val[1]
                [] k = "victory_method" -> Join(Drop(soup.method.val, 1))
                [] k = "final_round" -> soup.items[1][2]
                [] k = "finish_time" -> soup.items[2][2]
                [] k = "number_of_rounds" -> soup.items[3][3]])))

\* lines 243-338, for the fighters found on the page
FightRecord(soup, fighters, fighter_a_id, fighter_b_id, location, date, net) ==
  With(("fighter_a_name" :> fighters[fighter_a_id + 1].name)
       @@ ("fighter_b_name" :> fighters[fighter_b_id + 1].name)
       @@ ("fighter_a_link" :> fighters[fighter_a_id + 1].href)
       @@ ("fighter_b_link" :> fighters[fighter_b_id + 1].href), LAMBDA f0 :
    With([side \in {"a", "b"} |->
            get_fighter_basic_stats(f0["fighter_" \o side \o "_link"], net)], LAMBDA basic :
      IF basic["a"].kind = "raise" \/ basic["b"].kind = "raise" THEN Raise
      ELSE
        With(FightMeta(Del(Del(MergeBasic(f0, basic), "fighter_a_link"), "fighter_b_link"),
                       soup, location, date), LAMBDA f2 :
          IF f2.kind = "raise" THEN Raise
          ELSE With(Winner(f2.val, soup.persons), LAMBDA w :
                 IF w.kind = "raise" THEN Raise
                 ELSE FightTables(Put(f2.val, "winner", w.val), soup,
                                  fighter_a_id, fighter_b_id)))))

\* line 218: fighter_b_id = 1 - fighter_a_id
fighter_b_id_same(fighter_a_id) == fighter_a_id
fighter_b_id_of(fighter_a_id) == 1 - fighter_a_id

\* get_fight_stats(fight_url, location, date); bit is random.getrandbits(1)
get_fight_stats(fight_url, location, date, net, bit) ==
  With(get_fight_page(fight_url, net), LAMBDA html :
    IF html.kind = "none" THEN None
    ELSE IF ~html.val.persons_container THEN Raise
    ELSE With(Linked(html.val.persons), LAMBDA fighters :
           IF Len(fighters) < 2 THEN Raise
           ELSE FightRecord(html.val, fighters, bit, fighter_b_id_of(bit), location, date, net)))

(***************************************************************************)
(* Pages used as inputs                                                    *)
(***************************************************************************)
Site == "http://ufcstats.com/"
FightUrl(n) == <<Site>> \o FIGHT_DETAILS \o <<"/", n>>
FighterUrl(n) == <<Site>> \o FIGHTER_DETAILS \o <<"/", n>>
EventUrl(n) == <<Site>> \o EVENT_DETAILS \o <<"/", n>>

Names == <<"Ann", "Bea", "Cyd">>

T_0 == <<"0">>
T_1 == <<"1">>
T_2 == <<"2">>
T_1of2 == <<"1", " ", "o", "f", " ", "2">>
T_3of4 == <<"3", " ", "o", "f", " ", "4">>
T_5of6 == <<"5", " ", "o", "f", " ", "6">>
T_50pct == <<"5", "0", "%">>
T_75pct == <<"7", "5", "%">>
T_nopct == <<"-", "-", "-">>
T_ctrl == <<"1", ":", "3", "0">>
T_noctrl == <<"-", "-">>

\* the two texts of a statistics cell: first-listed fighter, second-listed fighter
Pair(v, x, y) == IF v = 1 THEN <<x, y>> ELSE IF v = 2 THEN <<y, x>> ELSE <<x, x>>

\* a data row of a totals table: the names cell, then the nine statistics
TotalsDataRow(v) ==
  << <<Names[1], Names[2]>>,
     Pair(v, T_1, T_0), Pair(v, T_1of2, T_3of4), Pair(v, T_50pct, T_75pct),
     Pair(v, T_3of4, T_5of6), Pair(v, T_0, T_1), Pair(v, T_nopct, T_50pct),
     Pair(v, T_0, T_2), Pair(v, T_0, T_1), Pair(v, T_ctrl, T_noctrl) >>

\* a data row of a significant-strikes table: names, sig. str., sig. str. %,
\* then the six target areas
SigDataRow(v) ==
  << <<Names[1], Names[2]>>,
     Pair(v, T_1of2, T_3of4), Pair(v, T_50pct, T_75pct),
     Pair(v, T_1of2, T_3of4), Pair(v, T_0, T_1of2), Pair(v, T_0, T_0),
     Pair(v, T_1of2, T_3of4), Pair(v, T_0, T_0), Pair(v, T_0, T_1of2) >>

\* a header row holds <th> cells only
HeadRow == <<>>

\* the defects a fight page may show, one at a time
Defects == {"container", "title", "content", "method", "items", "round_text",
            "sections2", "sections4", "sig_table", "cell"}

\* a fight page with the given fighter blocks, statistics variant v and defects
FightDoc(persons, v, defects) ==
  [ persons_container |-> "container" \notin defects,
    persons  |-> persons,
    title    |-> IF "title" \in defects THEN None ELSE Ret(<<"Lightweight", "Bout">>),
    content  |-> "content" \notin defects,
    method   |-> IF "method" \in defects THEN None ELSE Ret(<<"Method:", "KO/", "TKO">>),
    items    |-> IF "items" \in defects THEN << <<"Round:", "2">>, <<"Time:", "3:45">> >>
                 ELSE << (IF "round_text" \in defects THEN <<"Round:">> ELSE <<"Round:", "2">>),
                         <<"Time:", "3:45">>,
                         <<"Time", "format:", "3", "Rnd", "(5-5-5)">>,
                         <<"Referee:", "Herb">> >>,
    sections |-> IF "sections2" \in defects THEN << <<>>, <<HeadRow, TotalsDataRow(v)>> >>
                 ELSE IF "sections4" \in defects
                   THEN << <<>>, <<HeadRow, TotalsDataRow(v)>>,
                           <<HeadRow, HeadRow, TotalsDataRow(v)>>, <<>> >>
                 ELSE << <<>>,
                         <<HeadRow, (IF "cell" \in defects
                                       THEN << <<Names[1], Names[2]>>, <<T_1>> >>
                                       ELSE TotalsDataRow(v))>>,
                         <<HeadRow, HeadRow, TotalsDataRow(v), HeadRow, TotalsDataRow(3 - v)>>,
                         <<>>,
                         <<HeadRow, HeadRow, SigDataRow(v), HeadRow, SigDataRow(3 - v)>> >>,
    sig_table |-> IF "sig_table" \in defects THEN None ELSE Ret(<<HeadRow, SigDataRow(v)>>) ]

\* the fighter block of the i-th fighter of a page
Person(i, link, green) ==
  [link |-> link, name |-> Names[i], href |-> FighterUrl(Names[i]), green |-> green]

\* the largest number of fighter blocks on a fight page
MaxPersons == 3

\* every sequence of at most MaxPersons fighter blocks
PersonLists ==
  UNION {[1..n -> BOOLEAN \X BOOLEAN] : n \in 0..MaxPersons}

PersonsOf(pl) == [i \in DOMAIN pl |-> Person(IF i <= Len(Names) THEN i ELSE Len(Names), pl[i][1], pl[i][2])]

T_height == <<"5", "'", " ", "1", "1", "\"">>
T_badheight == <<"5", " ", "f", "t">>
T_weight == <<"1", "5", "5", " ", "l", "b", "s", ".">>
T_reach == <<"7", "2", "\"">>
T_stance == <<"O", "r", "t", "h", "o", "d", "o", "x">>
T_dob == <<"J", "u", "l", " ", "2", "2", ",", " ", "1", "9", "8", "7">>
T_none == <<"-", "-">>

ProfileKinds == {"good", "alias", "notitle", "badheight", "unknowns", "unreachable"}

Item(title, value) == [label |-> TRUE, title |-> <<title, ":">>, value |-> value]

\* the page served for the profile of the fighter called name
ProfileDoc(name, kind) ==
  [ containers |-> 2,
    title      |-> kind # "notitle",
    name       |-> IF kind = "alias" THEN name \o " Jr." ELSE name,
    record     |-> <<"Record:", "22-6-0">>,
    stats_div  |-> TRUE,
    info_box   |-> TRUE,
    stats_list |-> TRUE,
    items      |-> << Item("Height", IF kind = "badheight" THEN T_badheight
                                     ELSE IF kind = "unknowns" THEN T_none ELSE T_height),
                      Item("Weight", IF kind = "unknowns" THEN T_none ELSE T_weight),
                      Item("Reach", IF kind = "unknowns" THEN T_none ELSE T_reach),
                      Item("STANCE", IF kind = "unknowns" THEN <<>> ELSE T_stance),
                      Item("DOB", IF kind = "unknowns" THEN T_none ELSE T_dob),
                      [label |-> FALSE, title |-> <<>>, value |-> <<>>] >> ]

ProfileResp(name, kind) == IF kind = "unreachable" THEN None ELSE Ret(ProfileDoc(name, kind))

\* the profile pages of the fighters, of the given kinds
Profiles(kinds) ==
  [u \in {FighterUrl(Names[i]) : i \in 1..Len(Names)} |->
     LET i == CHOOSE j \in 1..Len(Names) : FighterUrl(Names[j]) = u
     IN  ProfileResp(Names[i], kinds[i])]

AllGood == <<"good", "good", "good">>

T_date == <<"A", "u", "g", "u", "s", "t", " ", "0", "9", ",", " ", "2", "0", "2", "5">>
T_baddate == <<"A", "u", "g", " ", "9", " ", "2", "0", "2", "5">>
Location == "Las Vegas, Nevada, USA"

\* two fighter blocks with links, the winner marker on block g (0: on neither)
TwoPersons(g) == <<Person(1, TRUE, g = 1), Person(2, TRUE, g = 2)>>

\* the statistics variants of a fight page (see Pair)
Variants == {1, 2, 3}

\* the inputs of one call of get_fight_stats: URL, date and the pages served
World(url, date, resp, kinds) ==
  [url |-> url, date |-> date, net |-> (FightUrl("f1") :> resp) @@ Profiles(kinds)]

FightWorlds ==
  {World(FightUrl("f1"), T_date, Ret(FightDoc(PersonsOf(pl), v, {})), AllGood) :
     pl \in PersonLists, v \in Variants}
  \cup
  {World(FightUrl("f1"), T_date, Ret(FightDoc(TwoPersons(g), 1, {d})), AllGood) :
     g \in 1..2, d \in Defects}
  \cup
  {World(FightUrl("f1"), T_date, Ret(FightDoc(TwoPersons(g), 1, {})), <<k1, k2, "good">>) :
     g \in 1..2, k1 \in ProfileKinds, k2 \in ProfileKinds}
  \cup
  {World(u, d, r, AllGood) :
     u \in {FightUrl("f1"), EventUrl("f1")}, d \in {T_date, T_baddate},
     r \in {None, Ret(FightDoc(TwoPersons(1), 1, {}))}}

(***************************************************************************)
(* State                                                                   *)
(***************************************************************************)
VARIABLES
  net,        \* the pages served: URL -> document, or None for a failed request
  f_pc,       \* get_fight_stats: "call" before the call, "drawn" at line 219, "done"
  f_url,      \* its argument fight_url
  f_date,     \* its argument date
  f_bit,      \* the value of random.getrandbits(1), -1 before it is drawn
  f_res       \* its outcome: the fight dictionary, None, or an exception

fvars == <<net, f_pc, f_url, f_date, f_bit, f_res>>

VARIABLES
  e_pc,       \* get_event_fights: "call", "loop" (lines 58-60), "done"
  e_url,      \* its argument url
  fight_urls, \* its local fight_urls
  e_i,        \* the index i of its loop over fight_urls
  fights,     \* its local fights
  e_res       \* its outcome: the list returned, None, or an exception

evars == <<e_pc, e_url, fight_urls, e_i, fights, e_res>>

VARIABLES
  pc,         \* get_recent_events: "loop" (line 52), "sleep" (line 146), "done"
  listing,    \* the paginated listing of the site (see PageAt)
  limit,      \* its argument limit: None or a number
  page,       \* its local page
  events,     \* its local events
  calls,      \* the calls made so far: "get" (get_page) and "sleep" (time.sleep(1))
  result      \* the list returned

dvars == <<pc, listing, limit, page, events, calls, result>>

VARIABLES
  q_pc,       \* a call of the fetcher: "call" or "done"
  q_fn,       \* the function called
  q_url,      \* its argument
  requests,   \* the requests issued so far (requests.get)
  q_res       \* the value returned

qvars == <<q_pc, q_fn, q_url, requests, q_res>>

VARIABLES
  p_pc,       \* a call of a value parser: "call" or "done"
  p_fn,       \* the parser called
  p_in,       \* its argument, a text
  p_out       \* its outcome

pvars == <<p_pc, p_fn, p_in, p_out>>

VARIABLES
  g_pc,       \* a call of get_fighter_basic_stats: "call" or "done"
  g_url,      \* its argument
  g_res       \* its outcome

gvars == <<g_pc, g_url, g_res>>

vars == <<fvars, evars, dvars, qvars, pvars, gvars>>

FetcherIdle ==
  q_pc = "idle" /\ q_fn = "" /\ q_url = <<>> /\ requests = <<>> /\ q_res = None

ParserIdle ==
  p_pc = "idle" /\ p_fn = "" /\ p_in = <<>> /\ p_out = None

FighterIdle ==
  g_pc = "idle" /\ g_url = <<>> /\ g_res = None

DiscoveryIdle ==
  /\ pc = "idle" /\ listing = <<>> /\ limit = None /\ page = 0
  /\ events = <<>> /\ calls = <<>> /\ result = <<>>

EventIdle ==
  e_pc = "idle" /\ e_url = <<>> /\ fight_urls = <<>> /\ e_i = 0 /\ fights = <<>> /\ e_res = None

FightIdle ==
  f_pc = "idle" /\ f_url = <<>> /\ f_date = <<>> /\ f_bit = -1 /\ f_res = None

(***************************************************************************)
(* One call of get_fight_stats                                             *)
(***************************************************************************)
FightInit ==
  /\ \E w \in FightWorlds : net = w.net /\ f_url = w.url /\ f_date = w.date
  /\ f_pc = "call"
  /\ f_bit = -1
  /\ f_res = None
  /\ EventIdle
  /\ DiscoveryIdle
  /\ FetcherIdle
  /\ ParserIdle
  /\ FighterIdle

\* lines 198-218: the page is fetched; a failed fetch ends the call with None,
\* otherwise the bit is drawn
DrawSides ==
  /\ f_pc = "call"
  /\ IF get_fight_page(f_url, net).kind = "none"
        THEN /\ f_pc' = "done"
             /\ f_res' = None
             /\ UNCHANGED f_bit
        ELSE /\ f_pc' = "drawn"
             /\ \E bit \in {0, 1} : f_bit' = bit
             /\ UNCHANGED f_res
  /\ UNCHANGED <<net, f_url, f_date, evars, dvars, qvars, pvars, gvars>>

\* lines 220-338: the record is built with the bit drawn
GetFightStats ==
  /\ f_pc = "drawn"
  /\ f_res' = get_fight_stats(f_url, Location, f_date, net, f_bit)
  /\ f_pc' = "done"
  /\ UNCHANGED <<net, f_url, f_date, f_bit, evars, dvars, qvars, pvars, gvars>>

FightNext == DrawSides \/ GetFightStats

FightSpec == FightInit /\ [][FightNext]_vars

(***************************************************************************)
(* Claims about get_fight_stats                                            *)
(***************************************************************************)
\* the fight page the call was given, when it was served
FightPageServed == get_fight_page(f_url, net).kind = "ok"
FightPage == get_fight_page(f_url, net).val

\* a statistics table with the two texts of every cell put in the order
\* (fighter called a_name, other fighter), read off the names cell of each row
ByName(table, a_name) ==
  [r \in DOMAIN table |->
     LET row == table[r]
     IN  IF /\ row # <<>>
            /\ \A c \in DOMAIN row : Len(row[c]) = 2
            /\ row[1][2] = a_name /\ row[1][1] # a_name
           THEN [c \in DOMAIN row |-> <<row[c][2], row[c][1]>>]
           ELSE row]

\* the statistics of a page as they stand on the page for the fighter called
\* a_name (side a) and for the other fighter (side b)
OnPageStats(soup, a_name) ==
  FightTables(EmptyDict,
              [soup EXCEPT !.sections = [i \in DOMAIN soup.sections |->
                                           ByName(soup.sections[i], a_name)],
                           !.sig_table = IF soup.sig_table.kind = "ok"
                                           THEN Ret(ByName(soup.sig_table.val, a_name))
                                           ELSE None],
              0, 1)

\* C1: every fighter_a_* statistic of a returned record is the on-page value of
\* the fighter stored as fighter_a_name, and every fighter_b_* statistic that
\* of the fighter stored as fighter_b_name, whatever the random side bit
C1_StatsFollowNames ==
  (f_pc = "done" /\ f_res.kind = "ok") =>
     LET onpage == OnPageStats(FightPage, f_res.val["fighter_a_name"])
     IN  /\ onpage.kind = "ok"
         /\ \A k \in DOMAIN onpage.val : f_res.val[k] = onpage.val[k]

\* the name in the first fighter block that carries the winner-status marker
HasMarker(soup) == \E i \in 1..Len(soup.persons) : soup.persons[i].green
MarkedName(soup) ==
  soup.persons[CHOOSE i \in 1..Len(soup.persons) :
                 /\ soup.persons[i].green
                 /\ \A j \in 1..(i - 1) : ~soup.persons[j].green].name

\* C2: in every returned record winner is a or b, and the name stored for the
\* winning side is the name found at the winner-status marker
C2_WinnerNameMatches ==
  (f_pc = "done" /\ f_res.kind = "ok") =>
     /\ f_res.val["winner"] \in {"a", "b"}
     /\ f_res.val["fighter_" \o f_res.val["winner"] \o "_name"] = MarkedName(FightPage)

\* the same page with the winner-status marker put on its first fighter block
WithMarker(soup) ==
  [soup EXCEPT !.persons = [i \in DOMAIN soup.persons |->
                              [soup.persons[i] EXCEPT !.green = (i = 1)]]]

\* a served page that lacks nothing but the winner-status marker
OnlyMarkerMissing ==
  /\ FightPageServed
  /\ ~HasMarker(FightPage)
  /\ FightPage.persons # <<>>
  /\ get_fight_stats(f_url, Location, f_date,
                     (f_url :> Ret(WithMarker(FightPage))) @@ net, 0).kind = "ok"

\* C3: a page without winner-status marker yields a record, not an exception,
\* and the record names no winner
C3_NoMarkerGivesRecord ==
  (f_pc = "done" /\ OnlyMarkerMissing) =>
     /\ f_res.kind = "ok"
     /\ "winner" \notin DOMAIN f_res.val

\* an expected element of the served page is missing: the fighters container,
\* a second fighter link, the metadata block or a statistics section
StructureMissing ==
  /\ FightPageServed
  /\ \/ ~FightPage.persons_container
     \/ Len(Linked(FightPage.persons)) < 2
     \/ ~FightPage.content
     \/ Len(FightPage.sections) < 5
     \/ FightPage.sig_table.kind = "none"

\* C4: a page with a missing structural element yields None, never an exception
C4_MissingStructureGivesNone ==
  (f_pc = "done" /\ StructureMissing) => f_res.kind = "none"

(***************************************************************************)
(* get_event_fights, event_scraper.py                                      *)
(* An event page: tbody (the table body is present) and rows, each row the *)
(* sequence of its anchors [cls: class attribute, href: target].           *)
(***************************************************************************)
GREEN == "b-flag b-flag_style_green"
BORDERED == "b-flag b-flag_style_bordered"

\* tbody.find_all("a", class_=cls): the anchors of that class in page order
RECURSIVE Anchors(_, _)
Anchors(rows, cls) ==
  IF rows = <<>> THEN <<>>
  ELSE SelectSeq(Head(rows), LAMBDA a : a.cls = cls) \o Anchors(Tail(rows), cls)

\* lines 49-50: the target of every green-flag anchor
AllHrefs(a_tags) == [i \in DOMAIN a_tags |-> a_tags[i].href]

\* lines 52-54: the target of every other bordered-flag anchor
RECURSIVE EveryOtherFrom(_, _)
EveryOtherFrom(a_tags_strange, i) ==
  IF i >= Len(a_tags_strange) THEN <<>>
  ELSE (IF i % 2 = 0 THEN <<a_tags_strange[i + 1].href>> ELSE <<>>)
       \o EveryOtherFrom(a_tags_strange, i + 1)

EveryOther_all(a_tags_strange) == AllHrefs(a_tags_strange)

EveryOther(a_tags_strange) == EveryOtherFrom(a_tags_strange, 0)

\* lines 43-54: the green-flag targets, then the bordered-flag ones
FightUrls(rows) == AllHrefs(Anchors(rows, GREEN)) \o EveryOther(Anchors(rows, BORDERED))

\* the anchors of a fight row of each markup kind, for the fight at url
EventRow(kind, url) ==
  LET flag(cls) == [cls |-> cls, href |-> url]
      fighter(n) == [cls |-> "b-link b-link_style_black", href |-> FighterUrl(n)]
  IN  IF kind = "decided" THEN <<flag(GREEN), fighter(Names[1]), fighter(Names[2])>>
      ELSE IF kind = "nowinner"
        THEN <<flag(BORDERED), flag(BORDERED), fighter(Names[1]), fighter(Names[2])>>
      ELSE <<flag(BORDERED), flag(BORDERED), flag(BORDERED),
             fighter(Names[1]), fighter(Names[2])>>

RowKinds == {"decided", "nowinner", "triple"}

\* what the site serves for the fight of a row: the page of a decided fight, the
\* page of a fight without winner (no marker), or nothing (the request fails)
Served(kind) ==
  IF kind = "decided" THEN {"page", "unreachable"}
  ELSE IF kind = "nowinner" THEN {"nomarker", "unreachable"}
  ELSE {"nomarker"}

FightResp(served) ==
  IF served = "page" THEN Ret(FightDoc(TwoPersons(1), 1, {}))
  ELSE IF served = "nomarker" THEN Ret(FightDoc(TwoPersons(0), 1, {}))
  ELSE None

\* the largest number of fight rows on an event page
MaxFights == 3

RowUrl(i) == FightUrl(ToString(i))

\* the fight rows of an event page and what is served for each
Cards ==
  UNION {{c \in [1..n -> RowKinds \X {"page", "nomarker", "unreachable"}] :
            \A i \in 1..n : c[i][2] \in Served(c[i][1])} : n \in 0..MaxFights}

EventDoc(card, tbody) ==
  [tbody |-> tbody, rows |-> [i \in DOMAIN card |-> EventRow(card[i][1], RowUrl(i))]]

EventNet(card, resp) ==
  (EventUrl("e1") :> resp) @@ [u \in {RowUrl(i) : i \in DOMAIN card} |->
                                 FightResp(card[CHOOSE i \in DOMAIN card : RowUrl(i) = u][2])]
  @@ Profiles(AllGood)

EventWorlds ==
  {[url |-> EventUrl("e1"), net |-> EventNet(card, Ret(EventDoc(card, TRUE)))] : card \in Cards}
  \cup
  {[url |-> u, net |-> EventNet(<<>>, r)] :
     u \in {EventUrl("e1"), FightUrl("e1")},
     r \in {None, Ret(EventDoc(<<>>, FALSE))}}

EventInit ==
  /\ \E w \in EventWorlds : net = w.net /\ e_url = w.url
  /\ e_pc = "call"
  /\ fight_urls = <<>>
  /\ e_i = 0
  /\ fights = <<>>
  /\ e_res = None
  /\ FightIdle
  /\ DiscoveryIdle
  /\ FetcherIdle
  /\ ParserIdle
  /\ FighterIdle

\* lines 27-56: fetch the event page and derive the fight URLs
EventStart ==
  /\ e_pc = "call"
  /\ LET html == get_event_page(e_url, net)
     IN  IF html.kind = "none"
           THEN e_pc' = "done" /\ e_res' = None /\ UNCHANGED fight_urls
         ELSE IF ~html.val.tbody
           THEN e_pc' = "done" /\ e_res' = Raise /\ UNCHANGED fight_urls
         ELSE e_pc' = "loop" /\ fight_urls' = FightUrls(html.val.rows) /\ UNCHANGED e_res
  /\ UNCHANGED <<net, e_url, e_i, fights, fvars, dvars, qvars, pvars, gvars>>

\* lines 58-60: one iteration, fights.append(get_fight_stats(f_url, ...))
ProcessFight ==
  /\ e_pc = "loop"
  /\ e_i < Len(fight_urls)
  /\ \E bit \in {0, 1} :
       LET r == get_fight_stats(fight_urls[e_i + 1], Location, T_date, net, bit)
       IN  IF r.kind = "raise"
             THEN e_pc' = "done" /\ e_res' = Raise /\ UNCHANGED <<e_i, fights>>
             ELSE /\ fights' = Append(fights, r)
                  /\ e_i' = e_i + 1
                  /\ UNCHANGED <<e_pc, e_res>>
  /\ UNCHANGED <<net, e_url, fight_urls, fvars, dvars, qvars, pvars, gvars>>

\* lines 63-65: return fights
EventReturn ==
  /\ e_pc = "loop"
  /\ e_i = Len(fight_urls)
  /\ e_pc' = "done"
  /\ e_res' = Ret(fights)
  /\ UNCHANGED <<net, e_url, fight_urls, e_i, fights, fvars, dvars, qvars, pvars, gvars>>

EventNext == EventStart \/ ProcessFight \/ EventReturn

EventSpec == EventInit /\ [][EventNext]_vars

(***************************************************************************)
(* Claims about get_event_fights                                           *)
(***************************************************************************)
\* the event page was served and has its table body: the fight URLs are derived
EventPageRead ==
  /\ get_event_page(e_url, net).kind = "ok"
  /\ get_event_page(e_url, net).val.tbody
EventRows == get_event_page(e_url, net).val.rows

\* the flag anchors of a row
Flags(row) == SelectSeq(row, LAMBDA a : a.cls \in {GREEN, BORDERED})

\* a row in the markup of a decided fight (one green flag) or of a fight
\* without winner (two bordered flags with the same target)
RowAsExpected(row) ==
  \/ Len(Flags(row)) = 1 /\ Flags(row)[1].cls = GREEN
  \/ /\ Len(Flags(row)) = 2
     /\ Flags(row)[1].cls = BORDERED /\ Flags(row)[2].cls = BORDERED
     /\ Flags(row)[1].href = Flags(row)[2].href

\* every row is in the expected markup and no two rows share a fight
PageAsExpected ==
  /\ \A i \in DOMAIN EventRows : RowAsExpected(EventRows[i])
  /\ \A i, j \in DOMAIN EventRows :
       Flags(EventRows[i])[1].href = Flags(EventRows[j])[1].href => i = j

\* the fight page of a URL yields a record (the side bit does not decide that)
Extracts(url) == get_fight_stats(url, Location, T_date, net, 0).kind = "ok"

\* C5: the list returned holds fight records only, one for each fight that was
\* extracted successfully; a fight that fails does not stop the loop
C5_FailuresSkipped ==
  (e_pc = "done" /\ EventPageRead) =>
     /\ e_res.kind = "ok"
     /\ \A k \in DOMAIN e_res.val : e_res.val[k].kind = "ok"
     /\ Len(e_res.val) = Cardinality({k \in DOMAIN fight_urls : Extracts(fight_urls[k])})

\* C6: on a page in the expected markup exactly one fight URL is derived per
\* fight row: every row's fight is in fight_urls once, and nothing else is
C6_OneUrlPerRow ==
  (e_pc # "call" /\ EventPageRead /\ PageAsExpected) =>
     /\ Len(fight_urls) = Len(EventRows)
     /\ \A i \in DOMAIN EventRows :
          Cardinality({k \in DOMAIN fight_urls :
                         fight_urls[k] = Flags(EventRows[i])[1].href}) = 1

C6_Witness ==
  /\ e_pc = "loop" /\ EventPageRead /\ PageAsExpected
  /\ \E i, j \in DOMAIN EventRows :
       /\ Flags(EventRows[i])[1].cls = GREEN
       /\ Flags(EventRows[j])[1].cls = BORDERED
  /\ Len(fight_urls) = Len(EventRows)

\* the place in the returned list of the outcome of a row's fight: line 60
\* appends the outcomes in the order of fight_urls
PlaceOf(i) == CHOOSE k \in DOMAIN fight_urls : fight_urls[k] = Flags(EventRows[i])[1].href

\* C7: the returned list is in page order: of two rows, the one listed first
\* has its outcome first
C7_PageOrder ==
  (e_pc = "done" /\ EventPageRead /\ PageAsExpected /\ e_res.kind = "ok") =>
     \A i, j \in DOMAIN EventRows : i < j => PlaceOf(i) < PlaceOf(j)

(***************************************************************************)
(* ufc_scraper.py: UFCScraper.get_recent_events                            *)
(***************************************************************************)
\* line 141: the highest page number that is fetched
PageCeiling == 100

\* lines 58-61: the URL of a page of the completed-events listing
events_url(p) ==
  IF p = 1 THEN <<Site, "statistics/events/completed">>
  ELSE <<Site, "statistics/events/completed", "?page=", p>>

\* the page a listing URL asks the site for
PageOfUrl(url) == IF Len(url) = 2 THEN 1 ELSE url[4]

\* a row <tr class="b-statistics__table-row"> of a listing page: the number of
\* its cells of class b-statistics__table-col, whether its first cell holds
\* an <a> and a <span>, and the target of the <a>
ListingRow(p, i, cells, link, span) ==
  [cells |-> cells, link |-> link, span |-> span,
   href |-> <<Site, "event-details", "/", p, i>>]

\* what the site serves as page p of a listing: a listing is a sequence of
\* first pages (head) and what every later page is (tail); a page is None
\* (the request fails) or the number of its rows and the index of its one
\* malformed row (0: none), a row of odd index lacking its second cell and a
\* row of even index lacking its link
PageAt(l, p) ==
  With(IF p <= Len(l.head) THEN l.head[p] ELSE l.tail, LAMBDA c :
    IF c.kind = "none" THEN None
    ELSE Ret([i \in 1..c.val.n |->
               ListingRow(p, i,
                          IF i = c.val.bad /\ i % 2 = 1 THEN 1 ELSE 2,
                          ~(i = c.val.bad /\ i % 2 = 0),
                          TRUE)]))

\* lines 21-40: get_page, the parsed page or None when the request fails
get_page(url, l) == PageAt(l, PageOfUrl(url))

\* lines 53 and 121: limit is not None and len(events) >= limit
LimitReached(lim, evs) == lim.kind = "ok" /\ Len(evs) >= lim.val

\* lines 89 and 95: the row has two cells, a link and a date
IsEventRow_3cells(row) == row.cells > 2 /\ row.link /\ row.span
IsEventRow(row) == row.cells >= 2 /\ row.link /\ row.span

\* lines 106-111: the dictionary of an event (its url stands for its name,
\* date and location, which are texts of the same row)
event_data(row) == [url |-> row.href]

\* lines 83-127: the loop over event_rows, entered at index i
RECURSIVE RowsLoop(_, _, _, _)
RowsLoop(evs, event_rows, i, lim) ==
  IF i > Len(event_rows) THEN evs
  ELSE With(IsEventRow(event_rows[i]), LAMBDA found :
         With(IF found THEN Append(evs, event_data(event_rows[i])) ELSE evs, LAMBDA ev :
           IF found /\ LimitReached(lim, ev) THEN ev
           ELSE RowsLoop(ev, event_rows, i + 1, lim)))

\* line 83: event_rows[1:], the rows below the first one
BelowHeader_all(event_rows) == event_rows
BelowHeader(event_rows) == Drop(event_rows, 1)

\* line 141: page > 100
PastCeiling_late(p) == p > PageCeiling + 1
PastCeiling(p) == p > PageCeiling

\* line 152: events[:limit]
Slice(evs, lim) ==
  IF lim.kind = "none" THEN evs
  ELSE IF lim.val >= 0
    THEN SubSeq(evs, 1, IF lim.val < Len(evs) THEN lim.val ELSE Len(evs))
    ELSE SubSeq(evs, 1, Len(evs) + lim.val)

\* the rows a listing page can have at most
MaxRows == 6
\* the first pages of a listing that vary
MaxHead == 2

\* what a page can be: failing, or n rows of which the second or the last
\* may be malformed
PageContents ==
  {None} \cup
  UNION {{Ret([n |-> n, bad |-> b]) : b \in {0} \cup ({2, n} \cap 2..n)} : n \in 0..MaxRows}

RECURSIVE Heads(_)
Heads(k) ==
  IF k = 0 THEN {<<>>}
  ELSE With(Heads(k - 1), LAMBDA hs :
         hs \cup {Append(h, c) : h \in {x \in hs : Len(x) = k - 1}, c \in PageContents})

\* the listings: some first pages followed by empty or failing pages only,
\* and the unending listings of equal pages of events
Listings ==
  {[head |-> h, tail |-> t] : h \in Heads(MaxHead), t \in {None, Ret([n |-> 0, bad |-> 0])}}
  \cup
  {[head |-> <<>>, tail |-> Ret([n |-> n, bad |-> 0])] : n \in 2..MaxRows}

Limits == {None} \cup {Ret(n) : n \in {0, 1, 10}}

DiscoveryInit ==
  /\ listing \in Listings
  /\ limit \in Limits
  /\ pc = "loop"
  /\ page = 1
  /\ events = <<>>
  /\ calls = <<>>
  /\ result = <<>>
  /\ net = <<>>
  /\ FightIdle
  /\ EventIdle
  /\ FetcherIdle
  /\ ParserIdle
  /\ FighterIdle

\* lines 52-143 and 152: one iteration of the while loop, from the test of
\* the limit to the test of the page ceiling, and the return when it breaks
ScrapePage ==
  /\ pc = "loop"
  /\ IF LimitReached(limit, events)
       THEN /\ pc' = "done"
            /\ result' = Slice(events, limit)
            /\ UNCHANGED <<page, events, calls>>
       ELSE LET soup == get_page(events_url(page), listing)
                ev   == RowsLoop(events, BelowHeader(soup.val), 1, limit)
            IN  /\ calls' = Append(calls, "get")
                /\ IF soup.kind = "none" \/ Len(soup.val) <= 1
                     THEN /\ pc' = "done"
                          /\ result' = Slice(events, limit)
                          /\ UNCHANGED <<page, events>>
                   ELSE /\ events' = ev
                        /\ IF Len(ev) - Len(events) = 0
                             THEN /\ pc' = "done"
                                  /\ result' = Slice(ev, limit)
                                  /\ UNCHANGED page
                             ELSE /\ page' = page + 1
                                  /\ IF PastCeiling(page + 1)
                                       THEN pc' = "done" /\ result' = Slice(ev, limit)
                                       ELSE pc' = "sleep" /\ UNCHANGED result
  /\ UNCHANGED <<listing, limit, net, fvars, evars, qvars, pvars, gvars>>

\* line 146: time.sleep(1), then the next iteration
Sleep_none ==
  /\ pc = "sleep"
  /\ pc' = "loop"
  /\ UNCHANGED <<listing, limit, page, events, calls, result, net, fvars, evars, qvars, pvars, gvars>>
Sleep ==
  /\ pc = "sleep"
  /\ calls' = Append(calls, "sleep")
  /\ pc' = "loop"
  /\ UNCHANGED <<listing, limit, page, events, result, net, fvars, evars, qvars, pvars, gvars>>

DiscoveryNext == ScrapePage \/ Sleep

DiscoverySpec == DiscoveryInit /\ [][DiscoveryNext]_vars

\* the interpreter runs the function to its end: a step that can be taken is taken
FairDiscoverySpec == DiscoverySpec /\ WF_vars(DiscoveryNext)

(***************************************************************************)
(* Claims about get_recent_events                                          *)
(***************************************************************************)
Fetched == Cardinality({k \in DOMAIN calls : calls[k] = "get"})

\* the rows of page p, none when the page fails
RowsOf(p) == With(PageAt(listing, p), LAMBDA c : IF c.kind = "ok" THEN c.val ELSE <<>>)

RECURSIVE SumTo(_, _)
SumTo(f, n) == IF n = 0 THEN 0 ELSE f[n] + SumTo(f, n - 1)

\* the rows of the listing in total, over its first pages
RowsInTotal == SumTo([p \in 1..(MaxHead + 1) |-> Len(RowsOf(p))], MaxHead + 1)

\* C8 as stated: with limit 10 and at least 11 rows in total, the first row of
\* the first page being the header, exactly 10 events are returned
C8_TenOfElevenRows ==
  (pc = "done" /\ limit = Ret(10) /\ RowsInTotal >= 11) => Len(result) = 10

\* the well-formed event rows of a page below its first row
WellFormed(rows) ==
  {i \in 2..Len(rows) : rows[i].cells >= 2 /\ rows[i].link /\ rows[i].span}

\* the well-formed event rows, as <<page, row>>, of the pages up to the
\* ceiling that precede the first page without any (a failing page has none)
UsableRowsOf(wf) ==
  UNION {{<<p, i>> : i \in wf[p]} :
           p \in {p \in 1..PageCeiling : \A q \in 1..p : wf[q] # {}}}

UsableRows ==
  Cardinality(UsableRowsOf([p \in 1..PageCeiling |-> WellFormed(RowsOf(p))]))

\* C8: with limit 10, exactly 10 events are returned whenever the pages that
\* are reached hold at least 10 well-formed event rows below their first rows
C8_TenOfUsableRows ==
  (pc = "done" /\ limit = Ret(10) /\ UsableRows >= 10) => Len(result) = 10

\* the ten events are spread over two pages of a listing that ends
C8_Witness ==
  /\ pc = "done" /\ limit = Ret(10) /\ UsableRows >= 10
  /\ Len(listing.head) = 2 /\ Len(result) = 10

\* C9: get_recent_events fetches at most 100 pages and returns
C9_Terminates == [](Fetched <= 100) /\ <>(pc = "done")

\* it returns at the ceiling, having fetched 100 pages
C9_Witness == pc = "done" /\ Fetched = 100 /\ limit = None

\* C10: between two fetches of a page there is a sleep
C10_DelayBetweenFetches ==
  \A k \in DOMAIN calls :
     (k > 1 /\ calls[k] = "get") => calls[k - 1] = "sleep"

C10_Witness == Fetched >= 3 /\ pc = "done"

\* C11: the first row of the first page is not among the events returned,
\* whatever the limit and the pages
C11_FirstRowExcluded ==
  (pc = "done" /\ Len(RowsOf(1)) >= 1) =>
     \A k \in DOMAIN result : result[k] # event_data(RowsOf(1)[1])

\* the first row of the first page has the markup of an event row, and events
\* of that page are returned
C11_Witness ==
  /\ pc = "done" /\ Len(RowsOf(1)) >= 2
  /\ RowsOf(1)[1].cells >= 2 /\ RowsOf(1)[1].link /\ RowsOf(1)[1].span
  /\ \E k \in DOMAIN result : result[k] = event_data(RowsOf(1)[2])

(***************************************************************************)
(* fetcher.py: one call of get_event_page, get_fight_page, get_fighter_page *)
(***************************************************************************)
FetcherFunctions == {"get_event_page", "get_fight_page", "get_fighter_page"}

\* the URLs a call is given: one of each kind, a listing URL, the empty text,
\* a URL within whitespace, a marker cut short, a marker in another case and
\* a marker in the query part
FetcherUrls ==
  {EventUrl("1"), FightUrl("1"), FighterUrl("1"),
   <<Site, "statistics/events/completed">>,
   <<>>,
   <<" ">> \o FightUrl("1") \o <<" ">>,
   <<Site>> \o SubSeq(FIGHTER_DETAILS, 1, Len(FIGHTER_DETAILS) - 1),
   <<Site, "F">> \o Tail(FIGHT_DETAILS),
   <<Site, "?next=">> \o EVENT_DETAILS}

\* the URLs the site may serve
Servable == {EventUrl("1"), FightUrl("1"), FighterUrl("1"), <<Site, "statistics/events/completed">>}

FetcherInit ==
  /\ \E served \in SUBSET Servable : net = [u \in served |-> Ret("html")]
  /\ q_fn \in FetcherFunctions
  /\ q_url \in FetcherUrls
  /\ q_pc = "call"
  /\ requests = <<>>
  /\ q_res = None
  /\ FightIdle
  /\ EventIdle
  /\ DiscoveryIdle
  /\ ParserIdle
  /\ FighterIdle

\* fetcher.py, lines 21-40 with lines 9-19: the call
FetcherCall ==
  /\ q_pc = "call"
  /\ LET c == IF q_fn = "get_event_page" THEN get_event_page_call(q_url, net)
              ELSE IF q_fn = "get_fight_page" THEN get_fight_page_call(q_url, net)
              ELSE get_fighter_page_call(q_url, net)
     IN  /\ q_res' = c.val
         /\ requests' = requests \o c.reqs
  /\ q_pc' = "done"
  /\ UNCHANGED <<net, q_fn, q_url, fvars, evars, dvars, pvars, gvars>>

FetcherNext == FetcherCall

FetcherSpec == FetcherInit /\ [][FetcherNext]_vars

(***************************************************************************)
(* Claims about the fetcher                                                *)
(***************************************************************************)
\* the marker a function looks for
MarkerOf(fn) ==
  IF fn = "get_event_page" THEN EVENT_DETAILS
  ELSE IF fn = "get_fight_page" THEN FIGHT_DETAILS
  ELSE FIGHTER_DETAILS

\* the text holds the marker: some stretch of it is the marker
Holds(url, marker) ==
  \E i \in 1..Len(url) :
     i + Len(marker) - 1 <= Len(url) /\ SubSeq(url, i, i + Len(marker) - 1) = marker

\* C12: a call with a URL that lacks the marker of its kind issues no request
\* and returns None; a request is issued only for a URL that holds the marker
C12_NoRequestWithoutMarker ==
  q_pc = "done" =>
     /\ ~Holds(q_url, MarkerOf(q_fn)) => (requests = <<>> /\ q_res = None)
     /\ requests # <<>> => Holds(q_url, MarkerOf(q_fn))

\* a URL of another kind that the site would serve is turned down unrequested,
\* here a fighter URL given to get_fight_page
C12_Witness ==
  /\ q_pc = "done" /\ q_fn = "get_fight_page" /\ q_url = FighterUrl("1")
  /\ q_url \in DOMAIN net
  /\ requests = <<>> /\ q_res = None

(***************************************************************************)
(* get_fight.py: one call of a value parser                                *)
(***************************************************************************)
Parsers == {"parse_fraction", "parse_pct"}

\* the pieces the texts given to a parser are made of
PiecesOf(fn) ==
  IF fn = "parse_fraction"
    THEN {<<"1">>, <<"1", "2">>, <<" ", "o", "f", " ">>, <<"o", "f">>, <<"x">>, <<" ">>}
    ELSE {<<"5">>, <<"5", "5">>, <<"5", ".">>, <<"%">>, <<"-", "-", "-">>, <<"-">>, <<"x">>}

\* the most pieces in a text
MaxPieces == 3

RECURSIVE TextsOf(_, _)
TextsOf(pieces, k) ==
  IF k = 0 THEN {<<>>}
  ELSE With(TextsOf(pieces, k - 1), LAMBDA ts : ts \cup {t \o q : t \in ts, q \in pieces})

ParserInit ==
  /\ p_fn \in Parsers
  /\ p_in \in TextsOf(PiecesOf(p_fn), MaxPieces)
  /\ p_pc = "call"
  /\ p_out = None
  /\ net = <<>>
  /\ FightIdle
  /\ EventIdle
  /\ DiscoveryIdle
  /\ FetcherIdle
  /\ FighterIdle

\* the call: lines 16-35 or lines 111-114
ParserCall ==
  /\ p_pc = "call"
  /\ p_out' = IF p_fn = "parse_fraction" THEN parse_fraction(p_in) ELSE parse_pct(p_in)
  /\ p_pc' = "done"
  /\ UNCHANGED <<net, p_fn, p_in, fvars, evars, dvars, qvars, gvars>>

ParserNext == ParserCall

ParserSpec == ParserInit /\ [][ParserNext]_vars

(***************************************************************************)
(* Claims about the value parsers                                          *)
(***************************************************************************)
\* a non-empty text of digits
IsNumber(t) == t # <<>> /\ \A i \in DOMAIN t : t[i] \in Digits

\* the places where a text 'X of Y' with numbers X and Y has its separator
FractionAt(t) ==
  {i \in 1..Len(t) :
     /\ i + Len(SEP_OF) <= Len(t)
     /\ IsNumber(SubSeq(t, 1, i - 1))
     /\ SubSeq(t, i, i + 3) = SEP_OF
     /\ IsNumber(SubSeq(t, i + 4, Len(t)))}

\* what the fraction parser is to return for a text
FractionOf(t) ==
  IF FractionAt(t) = {} THEN <<0, 0>>
  ELSE With(CHOOSE i \in FractionAt(t) : TRUE, LAMBDA i :
         <<DigitsVal(SubSeq(t, 1, i - 1)), DigitsVal(SubSeq(t, i + 4, Len(t)))>>)

\* C13: parse_fraction does not raise; it returns (X, Y) for the text 'X of Y'
\* with numbers X and Y, and (0, 0) for every other text
C13_FractionNeverRaises ==
  (p_pc = "done" /\ p_fn = "parse_fraction") =>
     /\ p_out.kind = "ok"
     /\ p_out.val = FractionOf(p_in)

\* a decimal number: digits with at most one point among them
IsDecimal(t) ==
  /\ \A i \in DOMAIN t : t[i] \in Digits \cup {"."}
  /\ Cardinality({i \in DOMAIN t : t[i] = "."}) <= 1
  /\ \E i \in DOMAIN t : t[i] \in Digits

\* its value
DecimalOf(t) ==
  With(IF \E i \in DOMAIN t : t[i] = "." THEN CHOOSE i \in DOMAIN t : t[i] = "."
       ELSE Len(t) + 1, LAMBDA dot :
    With(RStrip(SubSeq(t, dot + 1, Len(t)), {"0"}), LAMBDA frac :
      Float(DigitsVal(SubSeq(t, 1, dot - 1) \o frac), Pow10(Len(frac)))))

\* the text without '%' and with '---' read as 0
PctRemainder(t) == Replace(Replace(t, <<"%">>, <<>>), <<"-", "-", "-">>, <<"0">>)

\* C14: the percentage conversion does not raise; it yields the number for a
\* remainder that is a decimal number and 0.0 for every other remainder
C14_PercentageNeverRaises ==
  (p_pc = "done" /\ p_fn = "parse_pct") =>
     /\ p_out.kind = "ok"
     /\ p_out.val = IF IsDecimal(PctRemainder(p_in)) THEN DecimalOf(PctRemainder(p_in))
                    ELSE Float(0, 1)

(***************************************************************************)
(* get_fighter.py: one call of get_fighter_basic_stats                     *)
(***************************************************************************)
T_lbs == <<"l", "b", "s", ".">>
T_badreach == <<"7", "2", " ", "i", "n">>
T_hyphened == <<"S", "e", "m", "i", "-", "o", "p", "e", "n">>
T_baddob == <<"J", "u", "l", " ", "1", "9", "8", "7">>

\* the labels of a profile's list and the texts each may carry: the usual
\* one, the placeholder, malformed ones, and for the stance an empty one and
\* one with a hyphen in it
ProfileLabels == <<"Height", "Weight", "Reach", "STANCE", "DOB">>

TextsFor(title) ==
  CASE title = "Height" -> {T_height, T_badheight, T_none, <<>>}
    [] title = "Weight" -> {T_weight, T_lbs, T_none}
    [] title = "Reach"  -> {T_reach, T_badreach, T_none}
    [] title = "STANCE" -> {T_stance, T_hyphened, T_none, <<>>}
    [] title = "DOB"    -> {T_dob, T_baddob, T_none}

\* a complete profile page whose list carries the given texts
ProfileWith(name, texts) ==
  [ProfileDoc(name, "good") EXCEPT
     !.items = [i \in 1..Len(ProfileLabels) |-> Item(ProfileLabels[i], texts[i])]]

FighterWorlds ==
  {[url |-> FighterUrl(Names[1]), resp |-> Ret(ProfileWith(Names[1], texts))] :
     texts \in {t \in [1..Len(ProfileLabels) -> UNION {TextsFor(l) : l \in {"Height", "Weight", "Reach", "STANCE", "DOB"}}] :
                  \A i \in 1..Len(ProfileLabels) : t[i] \in TextsFor(ProfileLabels[i])}}
  \cup
  {[url |-> u, resp |-> r] :
     u \in {FighterUrl(Names[1]), FightUrl("1")},
     r \in {None, Ret(ProfileDoc(Names[1], "notitle"))}}

FighterInit ==
  /\ \E w \in FighterWorlds : net = (w.url :> w.resp) /\ g_url = w.url
  /\ g_pc = "call"
  /\ g_res = None
  /\ FightIdle
  /\ EventIdle
  /\ DiscoveryIdle
  /\ FetcherIdle
  /\ ParserIdle

\* lines 11-117: the call
GetFighterBasicStats ==
  /\ g_pc = "call"
  /\ g_res' = get_fighter_basic_stats(g_url, net)
  /\ g_pc' = "done"
  /\ UNCHANGED <<net, g_url, fvars, evars, dvars, qvars, pvars>>

FighterNext == GetFighterBasicStats

FighterSpec == FighterInit /\ [][FighterNext]_vars

(***************************************************************************)
(* Claims about get_fighter_basic_stats                                    *)
(***************************************************************************)
\* the profile page was served and has its title and its containers
ProfileRead ==
  /\ get_fighter_page(g_url, net).kind = "ok"
  /\ get_fighter_page(g_url, net).val.title
ProfileItems == get_fighter_page(g_url, net).val.items

\* the keys under which the entries of the list are recorded
ProfileKeys == <<"height", "weight", "reach", "stance", "dob">>

\* texts that are present and are not of their field's format
Malformed == {T_badheight, T_lbs, T_badreach, T_baddob}

\* texts that stand for an unknown value
Unknown == {<<>>, T_none}

\* C15: a height, weight, reach or date of birth that is present and does not
\* parse is recorded as None, and the profile is returned with its other fields
C15_ParseFailureGivesUnknown ==
  (g_pc = "done" /\ ProfileRead /\ \E i \in DOMAIN ProfileItems : ProfileItems[i].value \in Malformed) =>
     /\ g_res.kind = "ok"
     /\ g_res.val["name"] = get_fighter_page(g_url, net).val.name
     /\ \A i \in DOMAIN ProfileItems :
          /\ ProfileItems[i].value \in Malformed => g_res.val[ProfileKeys[i]] = None
          /\ ProfileItems[i].value \notin Malformed \cup Unknown =>
               g_res.val[ProfileKeys[i]].kind = "ok"

\* C17: an entry is recorded as None exactly when its text is empty or '--';
\* a stance of any other text is recorded as that text
C17_UnknownExactlyWhenDashes ==
  (g_pc = "done" /\ ProfileRead /\ g_res.kind = "ok") =>
     /\ \A i \in DOMAIN ProfileItems :
          (g_res.val[ProfileKeys[i]] = None) <=> (ProfileItems[i].value \in Unknown)
     /\ ProfileItems[4].value \notin Unknown => g_res.val["stance"] = Ret(ProfileItems[4].value)

(***************************************************************************)
(* Claims about the keys of a fight record                                 *)
(***************************************************************************)
\* the four statistics tables of the page in the order they are parsed:
\* totals, totals per round, significant strikes, significant strikes per round
TableOf(n) ==
  IF n = 3 THEN FightPage.sig_table.val ELSE FightPage.sections[IF n = 4 THEN 5 ELSE n + 1]

PerRound(n) == n \in {2, 4}

\* what parsing row r of table n alone writes: the other rows are emptied,
\* which keeps the row's number
RowWrites(n, r) ==
  With([i \in DOMAIN TableOf(n) |-> IF i = r THEN TableOf(n)[i] ELSE <<>>], LAMBDA rows :
    IF n <= 2 THEN parse_totals(rows, EmptyDict, 0, 1, PerRound(n)).val
    ELSE parse_sig_strikes(rows, EmptyDict, 0, 1, PerRound(n)).val)

\* the rows of the four tables, as <<table, row>>
TableRows == UNION {{<<n, r>> : r \in DOMAIN TableOf(n)} : n \in 1..4}

\* C16: a row of a per-round table shares no key with a row of another table
\* or with another row of its own table, and the record holds for every key
\* the value written by the row it belongs to
C16_KeysNeverCollide ==
  (f_pc = "done" /\ FightPageServed /\ f_res.kind = "ok") =>
     With([p \in TableRows |-> RowWrites(p[1], p[2])], LAMBDA w :
       /\ \A p, q \in TableRows :
            (p # q /\ (p[1] # q[1] \/ PerRound(p[1]))) => DOMAIN w[p] \cap DOMAIN w[q] = {}
       /\ \A p \in TableRows : \A k \in DOMAIN w[p] : f_res.val[k] = w[p][k])

\* a record with the knockdowns of the whole fight and of two rounds, the
\* rounds differing
C16_Witness ==
  /\ f_pc = "done" /\ FightPageServed /\ f_res.kind = "ok"
  /\ {"fighter_a_kd", "fighter_a_kd_02", "fighter_a_kd_04"} \subseteq DOMAIN f_res.val
  /\ f_res.val["fighter_a_kd_02"] # f_res.val["fighter_a_kd_04"]

(***************************************************************************)
(* Claims about the side assignment                                        *)
(***************************************************************************)
\* the page lists two fighters, the first two blocks with a name link, and
\* they are different fighters
TwoFighters ==
  /\ FightPageServed /\ FightPage.persons_container
  /\ Len(Linked(FightPage.persons)) >= 2
  /\ Linked(FightPage.persons)[1].name # Linked(FightPage.persons)[2].name

\* the i-th listed fighter's name as a record carries it: the name of the
\* profile page when the profile was extracted, the name on the fight page
\* when it was not
RecordedName(i) ==
  With(get_fighter_basic_stats(Linked(FightPage.persons)[i].href, net), LAMBDA b :
    IF b.kind = "ok" THEN b.val["name"] ELSE Linked(FightPage.persons)[i].name)

\* the record res gives side a to the fighter listed at place 1 + bit and
\* side b to the other one of the two
Assigned(res, bit) ==
  /\ res.val["fighter_a_name"] = RecordedName(1 + bit)
  /\ res.val["fighter_b_name"] = RecordedName(2 - bit)
  /\ res.val["fighter_a_name"] # res.val["fighter_b_name"]

\* the outcome of the call for the bit drawn and for the other bit
OtherDraw ==
  [drawn |-> get_fight_stats(f_url, Location, f_date, net, f_bit),
   other |-> get_fight_stats(f_url, Location, f_date, net, 1 - f_bit)]

\* C18: a record gives the two sides to the two different fighters of the
\* page as the random bit says, whichever fighter block carries the winner
\* marker; either value of the bit can be drawn; and where the value drawn
\* gives a record, the other value gives the record of the other assignment
C18_SidesIndependentOfWinner ==
  /\ (f_pc = "done" /\ TwoFighters /\ f_res.kind = "ok") => Assigned(f_res, f_bit)
  /\ (f_pc = "call" /\ TwoFighters) =>
        \A b \in {0, 1} : ENABLED (DrawSides /\ f_bit' = b)
  /\ (f_pc = "drawn" /\ TwoFighters) =>
        With(OtherDraw, LAMBDA d :
          /\ d.drawn.kind = d.other.kind
          /\ d.other.kind = "ok" => Assigned(d.other, 1 - f_bit))

\* the first-listed fighter carries the winner marker and is given side b
C18_Witness ==
  /\ f_pc = "done" /\ TwoFighters /\ f_res.kind = "ok"
  /\ Linked(FightPage.persons)[1].green
  /\ f_bit = 1
  /\ f_res.val["fighter_b_name"] = Linked(FightPage.persons)[1].name

====
